---- MODULE Spec2Model ----
(***************************************************************************)
(* Verification model of the MeshCore serial-to-TCP bridge                 *)
(* (examples/serial_to_tcp_bridge.py): the frame parser of the serial      *)
(* stream, the inline frame parser of each TCP client, the broadcast of a  *)
(* decoded frame to the TCP clients, the asyncio tasks that run them and   *)
(* the shutdown of run(); and of the alert bot (scripts/AlertBot/bot.py):  *)
(* its message cycles, connection tracking and reconnect checker.          *)
(*                                                                         *)
(* Bytes are integers 0..255, byte strings are sequences of them.  Python  *)
(* indices are 0-based: data[i] of the source is data[i + 1] here.         *)
(***************************************************************************)
EXTENDS Integers, Sequences, FiniteSets, TLC

VARIABLES
    codec,                  \* the decoders under test, fed chunk by chunk (SpecCodec)
    run_pc,                 \* position of SerialToTCPBridge.run
    serial_transport,       \* TRUE: self.serial_transport is set, FALSE: None
    tcp_clients,            \* self.tcp_clients: the set of registered writers
    serial_frame_started,   \* self.serial_frame_started
    serial_frame_size,      \* self.serial_frame_size
    serial_header,          \* self.serial_header
    serial_inframe,         \* self.serial_inframe
    tasks,                  \* the parse_serial_frames tasks data_received created
    rx,                     \* the serial chunks received so far, in order
    clients,                \* per client: handle_tcp_client's position and locals
    client_rx,              \* per client: the packets written to its writer, in order
    serial_tx,              \* the byte strings written to the serial transport
    bcast,                  \* the frames handed to handle_serial_frame, in order
    shutdown,               \* the finally block of run(): what it has closed so far
    bot,                    \* the alert bot (scripts/AlertBot/bot.py): main's locals
    sender                  \* examples/send_channel_message.py: main's arguments and locals

vars == <<codec, run_pc, serial_transport, tcp_clients, serial_frame_started,
          serial_frame_size, serial_header, serial_inframe, tasks, rx, clients,
          client_rx, serial_tx, bcast, shutdown, bot, sender>>

\* all but the alert bot
nonBotVars == <<codec, run_pc, serial_transport, tcp_clients, serial_frame_started,
                serial_frame_size, serial_header, serial_inframe, tasks, rx,
                clients, client_rx, serial_tx, bcast, shutdown, sender>>

bridgeVars == <<run_pc, serial_transport, tcp_clients, serial_frame_started,
                serial_frame_size, serial_header, serial_inframe, tasks, rx,
                clients, client_rx, serial_tx, bcast, shutdown, bot, sender>>

\* all but the channel message sender
nonSenderVars == <<codec, run_pc, serial_transport, tcp_clients, serial_frame_started,
                   serial_frame_size, serial_header, serial_inframe, tasks, rx,
                   clients, client_rx, serial_tx, bcast, shutdown, bot>>

----------------------------------------------------------------------------
(* Bounds of the model *)

\* longest byte sequence fed to the decoders under test
MaxLen == 5
\* number of serial chunks (parse tasks) of a run of the bridge
MaxTasks == 2
\* number of TCP clients that connect during a run of the bridge
MaxClients == 2
\* number of chunks the TCP clients send during a run of the bridge
MaxClientChunks == 2
\* largest byte value the payloads handed to the encoder are filled with
MaxFill == 9
\* number of message cycles of a run of the alert bot
MaxCycles == 2
\* number of connect() calls of the alert bot's reconnect checker in one outage
MaxAttempts == 7

----------------------------------------------------------------------------
(* Byte strings *)

\* FRAME_START = b"\x3c"
FRAME_START == 60

Min(a, b) == IF a < b THEN a ELSE b
Max(a, b) == IF a > b THEN a ELSE b

\* Python's data[a:b] for 0 <= a
PySlice(data, a, b) == SubSeq(data, a + 1, Min(b, Len(data)))

\* int.from_bytes(header[1:3], byteorder="little")
FromBytesLE(header) == header[2] + 256 * header[3]

\* what stands for the OverflowError int.to_bytes raises: not a byte string
OverflowError == <<-1>>

\* to_bytes silently keeping only the low byte of the size
ToBytesLETruncates(size) == <<size % 256, 0>>

\* size.to_bytes(2, byteorder="little"): OverflowError above 65535
ToBytesLE(size) ==
    IF size < 65536 THEN <<size % 256, size \div 256>> ELSE OverflowError

\* a packet that is the 3 header bytes alone, the payload left for a second write
PacketHeaderOnly(frame) == <<FRAME_START>> \o ToBytesLETruncates(Len(frame))

(* packet = FRAME_START + size.to_bytes(2, byteorder="little") + frame,    *)
(* or the OverflowError of to_bytes                                        *)
Packet(frame) ==
    LET size == ToBytesLE(Len(frame))
    IN  IF size = OverflowError THEN OverflowError
        ELSE <<FRAME_START>> \o size \o frame

\* all sequences over S of length 0..n
RECURSIVE SeqsUpTo(_, _)
SeqsUpTo(S, n) ==
    IF n = 0 THEN {<<>>}
    ELSE LET shorter == SeqsUpTo(S, n - 1)
         IN  shorter \cup {Append(s, b) : s \in {x \in shorter : Len(x) = n - 1}, b \in S}

\* the concatenation of a sequence of byte strings
RECURSIVE Concat(_)
Concat(ss) == IF ss = <<>> THEN <<>> ELSE Head(ss) \o Concat(Tail(ss))

----------------------------------------------------------------------------
(* The frame parser state: frame_started, frame_size, header, inframe *)

FreshDecoder == [started |-> FALSE, size |-> 0, header |-> <<>>, inframe |-> <<>>]

\* a reset that leaves the payload buffer as it is
ResetKeepsPayload(st) == [st EXCEPT !.started = FALSE, !.header = <<>>]

\* "Reset state" after a complete frame: the size is left as it is
ResetDecoder(st) == [st EXCEPT !.started = FALSE, !.header = <<>>, !.inframe = <<>>]

(* parse_serial_frames from index i up to its next call of                *)
(* handle_serial_frame (frame = TRUE: st.inframe is the complete frame,   *)
(* i and remaining are the task's locals at the call) or to the end of    *)
(* the while loop (frame = FALSE).                                        *)
RECURSIVE ScanSerial(_, _, _)
ScanSerial(st, data, i) ==
    IF i >= Len(data)
    THEN [st |-> st, i |-> i, frame |-> FALSE, remaining |-> 0]
    ELSE IF ~st.started
    THEN IF data[i + 1] = FRAME_START
         THEN IF Len(data) - i >= 3
              THEN LET hdr == PySlice(data, i, i + 3)
                   IN  ScanSerial([st EXCEPT !.header = hdr,
                                             !.size = FromBytesLE(hdr),
                                             !.started = TRUE], data, i + 3)
              ELSE \* "Not enough data, save what we have": break
                   [st |-> [st EXCEPT !.header = PySlice(data, i, Len(data))],
                    i |-> i, frame |-> FALSE, remaining |-> 0]
         ELSE ScanSerial(st, data, i + 1)
    ELSE LET remaining == st.size - Len(st.inframe)
         IN  IF Len(data) - i >= remaining
             THEN [st |-> [st EXCEPT !.inframe = @ \o PySlice(data, i, i + remaining)],
                   i |-> i, frame |-> TRUE, remaining |-> remaining]
             ELSE \* "Not enough data, save what we have": break
                  [st |-> [st EXCEPT !.inframe = @ \o PySlice(data, i, Len(data))],
                   i |-> i, frame |-> FALSE, remaining |-> 0]

(* parse_serial_frames on one chunk when handle_serial_frame returns at   *)
(* once (no client is registered, or the frames are only collected): the  *)
(* decoder state after the chunk and the frames completed in it.          *)
RECURSIVE FeedSerial(_, _, _, _)
FeedSerial(st, data, i, out) ==
    LET s == ScanSerial(st, data, i)
    IN  IF s.frame
        THEN FeedSerial(ResetDecoder(s.st), data, s.i + s.remaining,
                        Append(out, s.st.inframe))
        ELSE [st |-> s.st, out |-> out]

(* FeedClient with a frame completed while the serial transport is unset *)
(* kept for a later attempt, as a failed write is, instead of dropped.     *)
RECURSIVE FeedClientKeepsFrame(_, _, _, _, _, _)
FeedClientKeepsFrame(st, data, i, up, failAt, out) ==
    IF i >= Len(data)
    THEN [st |-> st, out |-> out]
    ELSE IF ~st.started
    THEN IF data[i + 1] = FRAME_START
         THEN IF Len(data) - i >= 3
              THEN LET hdr == PySlice(data, i, i + 3)
                   IN  FeedClientKeepsFrame([st EXCEPT !.header = hdr,
                                                       !.size = FromBytesLE(hdr),
                                                       !.started = TRUE],
                                            data, i + 3, up, failAt, out)
              ELSE [st |-> [st EXCEPT !.header = PySlice(data, i, Len(data))],
                    out |-> out]
         ELSE FeedClientKeepsFrame(st, data, i + 1, up, failAt, out)
    ELSE LET remaining == st.size - Len(st.inframe)
         IN  IF Len(data) - i >= remaining
             THEN LET inframe == st.inframe \o PySlice(data, i, i + remaining)
                      full_frame == st.header \o inframe
                  IN  IF ~up \/ failAt = Len(out) + 1
                      THEN [st |-> [st EXCEPT !.inframe = inframe], out |-> out]
                      ELSE FeedClientKeepsFrame(ResetDecoder(st), data, i + remaining,
                                                up, failAt, Append(out, full_frame))
             ELSE [st |-> [st EXCEPT !.inframe = @ \o PySlice(data, i, Len(data))],
                   out |-> out]

(* FeedClient writing the payload alone, without the header it saved.     *)
RECURSIVE FeedClientPayloadOnly(_, _, _, _, _, _)
FeedClientPayloadOnly(st, data, i, up, failAt, out) ==
    IF i >= Len(data)
    THEN [st |-> st, out |-> out]
    ELSE IF ~st.started
    THEN IF data[i + 1] = FRAME_START
         THEN IF Len(data) - i >= 3
              THEN LET hdr == PySlice(data, i, i + 3)
                   IN  FeedClientPayloadOnly([st EXCEPT !.header = hdr,
                                                        !.size = FromBytesLE(hdr),
                                                        !.started = TRUE],
                                             data, i + 3, up, failAt, out)
              ELSE [st |-> [st EXCEPT !.header = PySlice(data, i, Len(data))],
                    out |-> out]
         ELSE FeedClientPayloadOnly(st, data, i + 1, up, failAt, out)
    ELSE LET remaining == st.size - Len(st.inframe)
         IN  IF Len(data) - i >= remaining
             THEN LET inframe == st.inframe \o PySlice(data, i, i + remaining)
                  IN  IF up /\ failAt = Len(out) + 1
                      THEN [st |-> [st EXCEPT !.inframe = inframe], out |-> out]
                      ELSE FeedClientPayloadOnly(ResetDecoder(st), data, i + remaining,
                                                 up, failAt,
                                                 IF up THEN Append(out, inframe) ELSE out)
             ELSE [st |-> [st EXCEPT !.inframe = @ \o PySlice(data, i, Len(data))],
                   out |-> out]

(* The inline parser of handle_tcp_client on one chunk.  up: the serial   *)
(* transport is set; failAt: the number, within this chunk, of the        *)
(* serial_transport.write that raises (0: none does).  out: the byte      *)
(* strings written to the serial transport.                               *)
RECURSIVE FeedClient(_, _, _, _, _, _)
FeedClient(st, data, i, up, failAt, out) ==
    IF i >= Len(data)
    THEN [st |-> st, out |-> out]
    ELSE IF ~st.started
    THEN IF data[i + 1] = FRAME_START
         THEN IF Len(data) - i >= 3
              THEN LET hdr == PySlice(data, i, i + 3)
                   IN  FeedClient([st EXCEPT !.header = hdr,
                                             !.size = FromBytesLE(hdr),
                                             !.started = TRUE],
                                  data, i + 3, up, failAt, out)
              ELSE [st |-> [st EXCEPT !.header = PySlice(data, i, Len(data))],
                    out |-> out]
         ELSE FeedClient(st, data, i + 1, up, failAt, out)
    ELSE LET remaining == st.size - Len(st.inframe)
         IN  IF Len(data) - i >= remaining
             THEN LET inframe == st.inframe \o PySlice(data, i, i + remaining)
                      full_frame == st.header \o inframe
                  IN  IF up /\ failAt = Len(out) + 1
                      THEN \* the write raised: logged, break, state not reset
                           [st |-> [st EXCEPT !.inframe = inframe], out |-> out]
                      ELSE FeedClient(ResetDecoder(st), data, i + remaining, up, failAt,
                                      IF up THEN Append(out, full_frame) ELSE out)
             ELSE [st |-> [st EXCEPT !.inframe = @ \o PySlice(data, i, Len(data))],
                   out |-> out]

----------------------------------------------------------------------------
(* The decoders fed chunk by chunk (SpecCodec)                            *)

\* the byte values of the inputs: the marker, the lengths 0 and 1, a payload byte
CodecBytes == {FRAME_START, 0, 1, 7}

\* 0x3C 0x05 0x00 "hello"
HelloStream == <<60, 5, 0, 104, 101, 108, 108, 111>>

\* the frames 07 and "" back to back, then the marker of a third
BackToBack == <<60, 1, 0, 7, 60, 0, 0, 60>>

CodecInputs == SeqsUpTo(CodecBytes, MaxLen) \cup {HelloStream, BackToBack}

(* The finally block of run().  todo: the clients of list(self.tcp_clients) *)
(* not yet closed; cur: the client whose wait_closed() is awaited (0:      *)
(* none); closed: the writers run() has closed; failed: the writers whose  *)
(* close() raised; serial_closed: run() has closed the serial transport.   *)
NoShutdown == [todo |-> {}, cur |-> 0, closed |-> {}, failed |-> {},
               serial_closed |-> FALSE]

\* the alert bot before main() has connected
BotIdle == [pc |-> "idle", checker |-> "idle", connected |-> FALSE, i |-> 0,
            cycle_count |-> 0, total_messages_sent |-> 0, sends |-> 0, attempts |-> 0]

\* a channel value that is None
None == -1

(* send_channel_message.py before main() is called.  channel_index and     *)
(* channel are the parsed arguments (None: not given; <<>> for channel: not *)
(* given or empty, which "elif args.channel" treats alike); names is the   *)
(* device's answer to get_channel at the indices that answer; idx is the   *)
(* loop variable of find_channel_by_name and channel_idx the local of      *)
(* main; opened: create_serial returned; disconnected: mc.disconnect() was *)
(* called; sent: the channel indices send_chan_msg was called with.        *)
SenderIdle == [pc |-> "idle", channel_index |-> None, channel |-> <<>>,
               names |-> <<>>, idx |-> 0, channel_idx |-> None, opened |-> FALSE,
               disconnected |-> FALSE, sent |-> <<>>]

\* the bridge stands still while the decoders are exercised
BridgeIdle ==
    /\ run_pc = "idle"
    /\ serial_transport = FALSE
    /\ tcp_clients = {}
    /\ serial_frame_started = FALSE
    /\ serial_frame_size = 0
    /\ serial_header = <<>>
    /\ serial_inframe = <<>>
    /\ tasks = <<>>
    /\ rx = <<>>
    /\ clients = <<>>
    /\ client_rx = <<>>
    /\ serial_tx = <<>>
    /\ bcast = <<>>
    /\ shutdown = NoShutdown

CodecInit ==
    /\ codec \in [input : CodecInputs, pos : {0}, chunks : {<<>>},
                  st : {FreshDecoder}, out : {<<>>},
                  kst : {FreshDecoder}, kout : {<<>>}]
    /\ BridgeIdle
    /\ bot = BotIdle
    /\ sender = SenderIdle

\* the next n bytes of the input arrive as one chunk at both decoders
CodecFeed(n) ==
    /\ codec.pos + n <= Len(codec.input)
    /\ LET data == PySlice(codec.input, codec.pos, codec.pos + n)
           s == FeedSerial(codec.st, data, 0, <<>>)
           k == FeedClient(codec.kst, data, 0, TRUE, 0, <<>>)
       IN  codec' = [codec EXCEPT !.pos = @ + n,
                                  !.chunks = Append(@, n),
                                  !.st = s.st, !.out = @ \o s.out,
                                  !.kst = k.st, !.kout = @ \o k.out]
    /\ UNCHANGED bridgeVars

CodecNext == \E n \in 1..(MaxLen + 3) : CodecFeed(n)

SpecCodec == CodecInit /\ [][CodecNext]_vars

----------------------------------------------------------------------------
(* The bridge: SerialToTCPBridge under the asyncio event loop              *)
(*                                                                         *)
(* The event loop runs one callback or task step at a time; a task gives   *)
(* up the loop only at an await that suspends.  The awaits of the bridge   *)
(* are client_writer.drain() and client.wait_closed() in                   *)
(* handle_serial_frame, and reader.read() in handle_tcp_client.  A task    *)
(* whose pc is "iter" or "remove" is in the middle of a step: nothing else *)
(* runs until it reaches an await or ends.                                 *)

\* the bytes the device sends: the frames 07, 08, 09
DeviceStreams == { <<60, 1, 0, 7, 60, 1, 0, 8, 60, 1, 0, 9>> }

\* the sizes of the serial chunks: a header, one frame, two frames
ChunkSizes == {3, 4, 8}

\* the chunks a TCP client sends: a whole frame, a header, a payload byte, a marker
ClientChunks == { <<60, 1, 0, 7>>, <<60, 1, 0>>, <<8>>, <<60, 1>> }

Clients == 1..MaxClients

IsPrefix(a, b) == Len(a) <= Len(b) /\ a = SubSeq(b, 1, Len(a))

\* the chunks data_received may deliver next
NextChunks ==
    LET got == Concat(rx)
    IN  { PySlice(s, Len(got), Len(got) + n) :
            s \in {d \in DeviceStreams : IsPrefix(got, d)}, n \in ChunkSizes }
        \ {<<>>}

(* The locals of a parse task.  pc: "ready" created, "iter" in the for     *)
(* loop over the clients, "drain" awaiting drain() of client cur, "remove" *)
(* in the removal loop, "wait_closed" awaiting wait_closed() of client     *)
(* cur, "done" returned, "error" ended by an exception.  snap (the members *)
(* when the iteration began), visited and failed (the clients whose write  *)
(* or drain raised in this broadcast) record the iteration for the claims, *)
(* close_raised the clients whose close() raised in its removal loop.      *)
NoTask == [pc |-> "none", data |-> <<>>, i |-> 0, remaining |-> 0, packet |-> <<>>,
           used |-> 0, snap |-> {}, visited |-> {}, cur |-> 0, disconnected |-> <<>>,
           failed |-> {}, close_raised |-> {}]

(* handle_tcp_client of one connection.  status: "new" not yet accepted,   *)
(* "open" in the read loop, "closed" ended; st: frame_started, frame_size, *)
(* header, inframe; data: the chunk read last; sent: the chunks read.      *)
NewClient == [status |-> "new", st |-> FreshDecoder, data |-> <<>>, sent |-> 0]

TaskIds == 1..Len(tasks)

\* a parse task is in the middle of a step
TaskRunning == \E t \in TaskIds : tasks[t].pc \in {"iter", "remove"}

(* A task is in the middle of a step: a parse task, or run() in its        *)
(* finally block, where only await client.wait_closed() suspends it.       *)
Running == TaskRunning \/ (run_pc = "closing" /\ shutdown.cur = 0)

\* self.serial_frame_started, _size, _header, _inframe as one parser state
SerialState == [started |-> serial_frame_started, size |-> serial_frame_size,
                header |-> serial_header, inframe |-> serial_inframe]

SetSerialState(st) ==
    /\ serial_frame_started' = st.started
    /\ serial_frame_size' = st.size
    /\ serial_header' = st.header
    /\ serial_inframe' = st.inframe

\* __init__, before run() is started
Init ==
    /\ codec = [input |-> <<>>, pos |-> 0, chunks |-> <<>>, st |-> FreshDecoder,
                out |-> <<>>, kst |-> FreshDecoder, kout |-> <<>>]
    /\ run_pc = "start"
    /\ serial_transport = FALSE
    /\ tcp_clients = {}
    /\ serial_frame_started = FALSE
    /\ serial_frame_size = 0
    /\ serial_header = <<>>
    /\ serial_inframe = <<>>
    /\ tasks = <<>>
    /\ rx = <<>>
    /\ clients = [c \in Clients |-> NewClient]
    /\ client_rx = [c \in Clients |-> <<>>]
    /\ serial_tx = <<>>
    /\ bcast = <<>>
    /\ shutdown = NoShutdown
    /\ bot = BotIdle
    /\ sender = SenderIdle

(* run(): connect_serial, then start_tcp_server and serve_forever.  ok:   *)
(* create_serial_connection succeeded and called connection_made;          *)
(* otherwise connect_serial logs and re-raises, and run() ends with it.    *)
ConnectSerial(ok) ==
    /\ run_pc = "start"
    /\ run_pc' = IF ok THEN "serving" ELSE "failed"
    /\ serial_transport' = ok
    /\ UNCHANGED <<codec, sender, shutdown, bot, tcp_clients, serial_frame_started, serial_frame_size,
                   serial_header, serial_inframe, tasks, rx, clients, client_rx,
                   serial_tx, bcast>>

\* SerialProtocol.connection_lost
ConnectionLost ==
    /\ run_pc = "serving"
    /\ serial_transport
    /\ ~Running
    /\ serial_transport' = FALSE
    /\ UNCHANGED <<codec, sender, shutdown, bot, run_pc, tcp_clients, serial_frame_started, serial_frame_size,
                   serial_header, serial_inframe, tasks, rx, clients, client_rx,
                   serial_tx, bcast>>

(* SerialProtocol.data_received: create_task(parse_serial_frames(data)).   *)
(* The loop runs the new task's first step before it polls the serial fd   *)
(* again, so at most one task is created and not yet started.              *)
DataReceived(data) ==
    /\ run_pc = "serving"
    /\ serial_transport
    /\ ~Running
    /\ Len(tasks) < MaxTasks
    /\ \A t \in TaskIds : tasks[t].pc # "ready"
    /\ data \in NextChunks
    /\ tasks' = Append(tasks, [NoTask EXCEPT !.pc = "ready", !.data = data])
    /\ rx' = Append(rx, data)
    /\ UNCHANGED <<codec, sender, shutdown, bot, run_pc, serial_transport, tcp_clients, serial_frame_started,
                   serial_frame_size, serial_header, serial_inframe, clients,
                   client_rx, serial_tx, bcast>>

(* parse_serial_frames of task t from index i with parser state st, up to *)
(* its end or to the first await of handle_serial_frame.  With no client   *)
(* registered handle_serial_frame returns at once for every frame.         *)
(* Otherwise the packet is built (an OverflowError of to_bytes ends the    *)
(* task) and the iteration of self.tcp_clients begins: used is the size    *)
(* the set iterator remembers.                                             *)
ParseFrom(t, st, i) ==
    IF tcp_clients = {}
    THEN LET f == FeedSerial(st, tasks[t].data, i, <<>>)
         IN  /\ SetSerialState(f.st)
             /\ bcast' = bcast \o f.out
             /\ tasks' = [tasks EXCEPT ![t] = [NoTask EXCEPT !.pc = "done",
                                                             !.data = tasks[t].data]]
    ELSE LET s == ScanSerial(st, tasks[t].data, i)
         IN  /\ SetSerialState(s.st)
             /\ IF s.frame
                THEN /\ bcast' = Append(bcast, s.st.inframe)
                     /\ tasks' = [tasks EXCEPT ![t] =
                            [NoTask EXCEPT !.pc = IF Packet(s.st.inframe) = OverflowError
                                                  THEN "error" ELSE "iter",
                                           !.data = tasks[t].data,
                                           !.i = s.i, !.remaining = s.remaining,
                                           !.packet = Packet(s.st.inframe),
                                           !.used = Cardinality(tcp_clients),
                                           !.snap = tcp_clients]]
                ELSE /\ bcast' = bcast
                     /\ tasks' = [tasks EXCEPT ![t] = [NoTask EXCEPT !.pc = "done",
                                                             !.data = tasks[t].data]]

\* the first step of a parse task
StartTask(t) ==
    /\ tasks[t].pc = "ready"
    /\ ~Running
    /\ ParseFrom(t, SerialState, 0)
    /\ UNCHANGED <<codec, sender, shutdown, bot, run_pc, serial_transport, tcp_clients, rx, clients,
                   client_rx, serial_tx>>

(* handle_serial_frame has returned to parse_serial_frames: "Reset state", *)
(* i += remaining, and the while loop goes on.                             *)
AfterFrame(t) ==
    ParseFrom(t, ResetDecoder(SerialState), tasks[t].i + tasks[t].remaining)

(* One turn of "for client_writer in self.tcp_clients".  The set iterator  *)
(* raises RuntimeError when the set's size differs from the size at its    *)
(* creation; the error is outside the try and ends handle_serial_frame and *)
(* the parse task.  With the size unchanged, a member that was in the set  *)
(* when the iteration began and still is, is visited; a member added since *)
(* is visited or not, as its hash slot falls.                              *)
(* write = "raise": client_writer.write raises, the client is appended to  *)
(* disconnected_clients; otherwise the packet is written and the task      *)
(* awaits drain().                                                         *)
IterNext(t, c, write) ==
    /\ tasks[t].pc = "iter"
    /\ Cardinality(tcp_clients) = tasks[t].used
    /\ c \in tcp_clients \ tasks[t].visited
    /\ IF write = "raise"
       THEN /\ tasks' = [tasks EXCEPT ![t].visited = @ \cup {c},
                                      ![t].disconnected = Append(@, c),
                                      ![t].failed = @ \cup {c}]
            /\ client_rx' = client_rx
       ELSE /\ tasks' = [tasks EXCEPT ![t].visited = @ \cup {c},
                                      ![t].cur = c, ![t].pc = "drain"]
            /\ client_rx' = [client_rx EXCEPT ![c] = Append(@, tasks[t].packet)]
    /\ UNCHANGED <<codec, sender, shutdown, bot, run_pc, serial_transport, tcp_clients, serial_frame_started,
                   serial_frame_size, serial_header, serial_inframe, rx, clients,
                   serial_tx, bcast>>

\* the set changed size while the task was suspended: RuntimeError
IterError(t) ==
    /\ tasks[t].pc = "iter"
    /\ Cardinality(tcp_clients) # tasks[t].used
    /\ tasks' = [tasks EXCEPT ![t].pc = "error"]
    /\ UNCHANGED <<codec, sender, shutdown, bot, run_pc, serial_transport, tcp_clients, serial_frame_started,
                   serial_frame_size, serial_header, serial_inframe, rx, clients,
                   client_rx, serial_tx, bcast>>

(* The iteration ends.  With no failed client the removal loop is empty    *)
(* and handle_serial_frame returns; otherwise the removal loop begins.     *)
IterEnd(t) ==
    /\ tasks[t].pc = "iter"
    /\ Cardinality(tcp_clients) = tasks[t].used
    /\ (tcp_clients \cap tasks[t].snap) \subseteq tasks[t].visited
    /\ IF tasks[t].disconnected = <<>>
       THEN AfterFrame(t)
       ELSE /\ tasks' = [tasks EXCEPT ![t].pc = "remove"]
            /\ UNCHANGED <<serial_frame_started, serial_frame_size, serial_header,
                           serial_inframe, bcast>>
    /\ UNCHANGED <<codec, sender, shutdown, bot, run_pc, serial_transport, tcp_clients, rx, clients,
                   client_rx, serial_tx>>

\* await client_writer.drain() returns (ok) or raises
DrainDone(t, ok) ==
    /\ tasks[t].pc = "drain"
    /\ ~Running
    /\ tasks' = [tasks EXCEPT ![t].pc = "iter", ![t].cur = 0,
                              ![t].disconnected = IF ok THEN @ ELSE Append(@, tasks[t].cur),
                              ![t].failed = IF ok THEN @ ELSE @ \cup {tasks[t].cur}]
    /\ UNCHANGED <<codec, sender, shutdown, bot, run_pc, serial_transport, tcp_clients, serial_frame_started,
                   serial_frame_size, serial_header, serial_inframe, rx, clients,
                   client_rx, serial_tx, bcast>>

(* RemoveNext with no try around close(): an error of close() ends         *)
(* handle_serial_frame and the parse task.                                 *)
RemoveNextCloseAborts(t, closeOk) ==
    /\ tasks[t].pc = "remove"
    /\ tasks[t].disconnected # <<>>
    /\ LET c == Head(tasks[t].disconnected)
       IN  /\ tcp_clients' = tcp_clients \ {c}
           /\ tasks' = [tasks EXCEPT ![t].disconnected = Tail(@),
                                     ![t].cur = IF closeOk THEN c ELSE 0,
                                     ![t].close_raised = IF closeOk THEN @ ELSE @ \cup {c},
                                     ![t].pc = IF closeOk THEN "wait_closed" ELSE "error"]
    /\ UNCHANGED <<codec, sender, shutdown, bot, run_pc, serial_transport, serial_frame_started,
                   serial_frame_size, serial_header, serial_inframe, rx, clients,
                   client_rx, serial_tx, bcast>>

(* One turn of "for client in disconnected_clients": discard, close(),     *)
(* await wait_closed().  closeOk = FALSE: client.close() raises, which the *)
(* bare except swallows.                                                   *)
RemoveNext(t, closeOk) ==
    /\ tasks[t].pc = "remove"
    /\ tasks[t].disconnected # <<>>
    /\ LET c == Head(tasks[t].disconnected)
       IN  /\ tcp_clients' = tcp_clients \ {c}
           /\ tasks' = [tasks EXCEPT ![t].disconnected = Tail(@),
                                     ![t].cur = IF closeOk THEN c ELSE 0,
                                     ![t].close_raised = IF closeOk THEN @ ELSE @ \cup {c},
                                     ![t].pc = IF closeOk THEN "wait_closed" ELSE "remove"]
    /\ UNCHANGED <<codec, sender, shutdown, bot, run_pc, serial_transport, serial_frame_started,
                   serial_frame_size, serial_header, serial_inframe, rx, clients,
                   client_rx, serial_tx, bcast>>

\* await client.wait_closed() returns or raises (swallowed)
WaitClosedDone(t) ==
    /\ tasks[t].pc = "wait_closed"
    /\ ~Running
    /\ tasks' = [tasks EXCEPT ![t].pc = "remove", ![t].cur = 0]
    /\ UNCHANGED <<codec, sender, shutdown, bot, run_pc, serial_transport, tcp_clients, serial_frame_started,
                   serial_frame_size, serial_header, serial_inframe, rx, clients,
                   client_rx, serial_tx, bcast>>

\* the removal loop is over: handle_serial_frame returns
RemoveEnd(t) ==
    /\ tasks[t].pc = "remove"
    /\ tasks[t].disconnected = <<>>
    /\ AfterFrame(t)
    /\ UNCHANGED <<codec, sender, shutdown, bot, run_pc, serial_transport, tcp_clients, rx, clients,
                   client_rx, serial_tx>>

\* ClientConnect accepting connections only while the serial link is up
ClientConnectNeedsLink(c) ==
    /\ serial_transport
    /\ run_pc \in {"serving", "closing"}
    /\ ~Running
    /\ clients[c].status = "new"
    /\ \A d \in Clients : d < c => clients[d].status # "new"
    /\ tcp_clients' = tcp_clients \cup {c}
    /\ clients' = [clients EXCEPT ![c].status = "open"]
    /\ UNCHANGED <<codec, sender, shutdown, bot, run_pc, serial_transport, serial_frame_started,
                   serial_frame_size, serial_header, serial_inframe, tasks, rx,
                   client_rx, serial_tx, bcast>>

(* handle_tcp_client begins: the server accepted a connection.  Each       *)
(* connection has a writer of its own; the clients connect in the order of *)
(* their numbers.  The handler is a task the event loop starts some steps  *)
(* after the accept, so the handler of a connection accepted just before   *)
(* the server closed may begin while run() is suspended in its finally     *)
(* block.                                                                  *)
ClientConnect(c) ==
    /\ run_pc \in {"serving", "closing"}
    /\ ~Running
    /\ clients[c].status = "new"
    /\ \A d \in Clients : d < c => clients[d].status # "new"
    /\ tcp_clients' = tcp_clients \cup {c}
    /\ clients' = [clients EXCEPT ![c].status = "open"]
    /\ UNCHANGED <<codec, sender, shutdown, bot, run_pc, serial_transport, serial_frame_started,
                   serial_frame_size, serial_header, serial_inframe, tasks, rx,
                   client_rx, serial_tx, bcast>>

\* the chunks the clients 1..n have sent so far
RECURSIVE SentUpTo(_)
SentUpTo(n) == IF n = 0 THEN 0 ELSE clients[n].sent + SentUpTo(n - 1)

ClientChunksSent == SentUpTo(MaxClients)

(* ClientData buffering the chunk while the serial transport is unset, for  *)
(* a later write, instead of parsing it and dropping its frames.           *)
ClientDataBuffers(c, data, failAt) ==
    /\ clients[c].status = "open"
    /\ ~Running
    /\ ClientChunksSent < MaxClientChunks
    /\ data \in ClientChunks
    /\ failAt <= Len(FeedClient(clients[c].st, data, 0, serial_transport, 0, <<>>).out)
    /\ LET r == IF serial_transport
                THEN FeedClient(clients[c].st, data, 0, TRUE, failAt, <<>>)
                ELSE [st |-> [clients[c].st EXCEPT !.started = TRUE, !.inframe = @ \o data],
                      out |-> <<>>]
       IN  /\ clients' = [clients EXCEPT ![c].st = r.st, ![c].data = data,
                                          ![c].sent = @ + 1]
           /\ serial_tx' = serial_tx \o r.out
    /\ UNCHANGED <<codec, sender, shutdown, bot, run_pc, serial_transport, tcp_clients, serial_frame_started,
                   serial_frame_size, serial_header, serial_inframe, tasks, rx,
                   client_rx, bcast>>

(* ClientData with one parser state shared by all the clients, instead of  *)
(* the locals of each handle_tcp_client call.                              *)
ClientDataShared(c, data, failAt) ==
    /\ clients[c].status = "open"
    /\ ~Running
    /\ ClientChunksSent < MaxClientChunks
    /\ data \in ClientChunks
    /\ failAt <= Len(FeedClient(clients[c].st, data, 0, serial_transport, 0, <<>>).out)
    /\ LET r == FeedClient(clients[c].st, data, 0, serial_transport, failAt, <<>>)
       IN  /\ clients' = [d \in Clients |->
                            IF d = c THEN [clients[d] EXCEPT !.st = r.st, !.data = data,
                                                             !.sent = @ + 1]
                                     ELSE [clients[d] EXCEPT !.st = r.st]]
           /\ serial_tx' = serial_tx \o r.out
    /\ UNCHANGED <<codec, sender, shutdown, bot, run_pc, serial_transport, tcp_clients, serial_frame_started,
                   serial_frame_size, serial_header, serial_inframe, tasks, rx,
                   client_rx, bcast>>

(* ClientData writing each complete frame without looking at               *)
(* self.serial_transport first.                                            *)
ClientDataUnchecked(c, data, failAt) ==
    /\ clients[c].status = "open"
    /\ ~Running
    /\ ClientChunksSent < MaxClientChunks
    /\ data \in ClientChunks
    /\ failAt <= Len(FeedClient(clients[c].st, data, 0, TRUE, 0, <<>>).out)
    /\ LET r == FeedClient(clients[c].st, data, 0, TRUE, failAt, <<>>)
       IN  /\ clients' = [clients EXCEPT ![c].st = r.st, ![c].data = data,
                                          ![c].sent = @ + 1]
           /\ serial_tx' = serial_tx \o r.out
    /\ UNCHANGED <<codec, sender, shutdown, bot, run_pc, serial_transport, tcp_clients, serial_frame_started,
                   serial_frame_size, serial_header, serial_inframe, tasks, rx,
                   client_rx, bcast>>

(* handle_tcp_client: reader.read returned data; the inline parser runs on *)
(* it and writes each complete frame to the serial transport.  failAt: the *)
(* write (counted within this chunk) that raises, 0 for none.              *)
ClientData(c, data, failAt) ==
    /\ clients[c].status = "open"
    /\ ~Running
    /\ ClientChunksSent < MaxClientChunks
    /\ data \in ClientChunks
    /\ failAt <= Len(FeedClient(clients[c].st, data, 0, serial_transport, 0, <<>>).out)
    /\ LET r == FeedClient(clients[c].st, data, 0, serial_transport, failAt, <<>>)
       IN  /\ clients' = [clients EXCEPT ![c].st = r.st, ![c].data = data,
                                          ![c].sent = @ + 1]
           /\ serial_tx' = serial_tx \o r.out
    /\ UNCHANGED <<codec, sender, shutdown, bot, run_pc, serial_transport, tcp_clients, serial_frame_started,
                   serial_frame_size, serial_header, serial_inframe, tasks, rx,
                   client_rx, bcast>>

\* ClientClose closing the writer without discarding it from the set
ClientCloseKeepsRegistered(c) ==
    /\ clients[c].status = "open"
    /\ ~Running
    /\ tcp_clients' = tcp_clients
    /\ clients' = [clients EXCEPT ![c].status = "closed"]
    /\ UNCHANGED <<codec, sender, shutdown, bot, run_pc, serial_transport, serial_frame_started,
                   serial_frame_size, serial_header, serial_inframe, tasks, rx,
                   client_rx, serial_tx, bcast>>

(* handle_tcp_client ends: reader.read returned b"" or raised; the finally *)
(* block discards the writer and closes it.                                *)
ClientClose(c) ==
    /\ clients[c].status = "open"
    /\ ~Running
    /\ tcp_clients' = tcp_clients \ {c}
    /\ clients' = [clients EXCEPT ![c].status = "closed"]
    /\ UNCHANGED <<codec, sender, shutdown, bot, run_pc, serial_transport, serial_frame_started,
                   serial_frame_size, serial_header, serial_inframe, tasks, rx,
                   client_rx, serial_tx, bcast>>

(* run() is stopped by its caller: serve_forever is cancelled, "async with *)
(* server" closes the listening socket, and the finally block takes        *)
(* list(self.tcp_clients).                                                 *)
Shutdown ==
    /\ run_pc = "serving"
    /\ ~Running
    /\ run_pc' = "closing"
    /\ shutdown' = [shutdown EXCEPT !.todo = tcp_clients]
    /\ UNCHANGED <<codec, sender, bot, serial_transport, tcp_clients, serial_frame_started,
                   serial_frame_size, serial_header, serial_inframe, tasks, rx,
                   clients, client_rx, serial_tx, bcast>>

(* One turn of "for client in list(self.tcp_clients)": client.close(),     *)
(* then await client.wait_closed().  closeOk = FALSE: close() raises,      *)
(* which the bare except swallows.                                         *)
CloseNext(c, closeOk) ==
    /\ run_pc = "closing"
    /\ shutdown.cur = 0
    /\ c \in shutdown.todo
    /\ shutdown' = [shutdown EXCEPT !.todo = @ \ {c},
                                    !.closed = IF closeOk THEN @ \cup {c} ELSE @,
                                    !.failed = IF closeOk THEN @ ELSE @ \cup {c},
                                    !.cur = IF closeOk THEN c ELSE 0]
    /\ UNCHANGED <<codec, sender, bot, run_pc, serial_transport, tcp_clients,
                   serial_frame_started, serial_frame_size, serial_header,
                   serial_inframe, tasks, rx, clients, client_rx, serial_tx, bcast>>

\* await client.wait_closed() of run() returns or raises (swallowed)
CloseWaitDone ==
    /\ run_pc = "closing"
    /\ ~TaskRunning
    /\ shutdown.cur # 0
    /\ shutdown' = [shutdown EXCEPT !.cur = 0]
    /\ UNCHANGED <<codec, sender, bot, run_pc, serial_transport, tcp_clients,
                   serial_frame_started, serial_frame_size, serial_header,
                   serial_inframe, tasks, rx, clients, client_rx, serial_tx, bcast>>

(* The loop over the clients is over: "if self.serial_transport:           *)
(* self.serial_transport.close()", "Bridge stopped", run() returns.        *)
CloseSerial ==
    /\ run_pc = "closing"
    /\ shutdown.cur = 0
    /\ shutdown.todo = {}
    /\ run_pc' = "stopped"
    /\ shutdown' = [shutdown EXCEPT !.serial_closed = serial_transport]
    /\ UNCHANGED <<codec, sender, bot, serial_transport, tcp_clients, serial_frame_started,
                   serial_frame_size, serial_header, serial_inframe, tasks, rx,
                   clients, client_rx, serial_tx, bcast>>

\* the steps of the parse tasks: parse_serial_frames and handle_serial_frame
TaskStep ==
    \/ \E t \in TaskIds : StartTask(t)
    \/ \E t \in TaskIds, c \in Clients, w \in {"ok", "raise"} : IterNext(t, c, w)
    \/ \E t \in TaskIds : IterError(t)
    \/ \E t \in TaskIds : IterEnd(t)
    \/ \E t \in TaskIds, ok \in BOOLEAN : DrainDone(t, ok)
    \/ \E t \in TaskIds, ok \in BOOLEAN : RemoveNext(t, ok)
    \/ \E t \in TaskIds : WaitClosedDone(t)
    \/ \E t \in TaskIds : RemoveEnd(t)

(* The serial-to-clients direction: the device sends, clients connect and  *)
(* disconnect, writes to clients fail; no client sends.                    *)
Next ==
    \/ \E ok \in BOOLEAN : ConnectSerial(ok)
    \/ \E data \in NextChunks : DataReceived(data)
    \/ TaskStep
    \/ \E c \in Clients : ClientConnect(c)
    \/ \E c \in Clients : ClientClose(c)

Spec == Init /\ [][Next]_vars

(* The clients-to-serial direction: clients connect, send and disconnect,  *)
(* the serial link is lost, writes to it fail; the device is silent.       *)
NextPump ==
    \/ \E ok \in BOOLEAN : ConnectSerial(ok)
    \/ ConnectionLost
    \/ \E c \in Clients : ClientConnect(c)
    \/ \E c \in Clients, data \in ClientChunks, f \in 0..2 : ClientData(c, data, f)
    \/ \E c \in Clients : ClientClose(c)

SpecPump == Init /\ [][NextPump]_vars

(* The life of run(): the serial link is opened and may be lost, clients   *)
(* connect and disconnect, and the caller stops the bridge.                *)
NextRun ==
    \/ \E ok \in BOOLEAN : ConnectSerial(ok)
    \/ ConnectionLost
    \/ \E c \in Clients : ClientConnect(c)
    \/ \E c \in Clients : ClientClose(c)
    \/ Shutdown
    \/ \E c \in Clients, ok \in BOOLEAN : CloseNext(c, ok)
    \/ CloseWaitDone
    \/ CloseSerial

SpecRun == Init /\ [][NextRun]_vars

(* handle_serial_frame called on a frame of any length, with client 1     *)
(* registered: the packet is built and written to the client, and the call *)
(* awaits drain(); or to_bytes raises and the call ends with the error.    *)

\* the payload lengths around the limits of the 1-byte and 2-byte sizes
EncodeLengths == {0, 1, 2, 3, 255, 256, 257, 65534, 65535, 65536, 65537}

\* the payloads: every byte the same, 0..MaxFill
EncodeFrames == { [k \in 1..n |-> b] : n \in EncodeLengths, b \in 0..MaxFill }

\* the bridge is serving, client 1 is connected, nothing was received yet
EncodeInit ==
    /\ codec = [input |-> <<>>, pos |-> 0, chunks |-> <<>>, st |-> FreshDecoder,
                out |-> <<>>, kst |-> FreshDecoder, kout |-> <<>>]
    /\ run_pc = "serving"
    /\ serial_transport = TRUE
    /\ tcp_clients = {1}
    /\ serial_frame_started = FALSE
    /\ serial_frame_size = 0
    /\ serial_header = <<>>
    /\ serial_inframe = <<>>
    /\ tasks = <<>>
    /\ rx = <<>>
    /\ clients = [c \in Clients |-> IF c = 1 THEN [NewClient EXCEPT !.status = "open"]
                                              ELSE NewClient]
    /\ client_rx = [c \in Clients |-> <<>>]
    /\ serial_tx = <<>>
    /\ bcast = <<>>
    /\ shutdown = NoShutdown
    /\ bot = BotIdle
    /\ sender = SenderIdle

HandleSerialFrame(frame) ==
    /\ tasks = <<>>
    /\ tcp_clients # {}
    /\ bcast' = Append(bcast, frame)
    /\ LET packet == Packet(frame)
           c == CHOOSE d \in tcp_clients : TRUE
       IN  IF packet = OverflowError
           THEN /\ tasks' = <<[NoTask EXCEPT !.pc = "error", !.packet = packet]>>
                /\ client_rx' = client_rx
           ELSE /\ tasks' = <<[NoTask EXCEPT !.pc = "drain", !.packet = packet,
                                              !.used = Cardinality(tcp_clients),
                                              !.snap = tcp_clients,
                                              !.visited = {c}, !.cur = c]>>
                /\ client_rx' = [client_rx EXCEPT ![c] = Append(@, packet)]
    /\ UNCHANGED <<codec, sender, shutdown, bot, run_pc, serial_transport, tcp_clients,
                   serial_frame_started, serial_frame_size, serial_header,
                   serial_inframe, rx, clients, serial_tx>>

NextEncode ==
    \/ \E frame \in EncodeFrames : HandleSerialFrame(frame)
    \/ \E t \in TaskIds, ok \in BOOLEAN : DrainDone(t, ok)

SpecEncode == EncodeInit /\ [][NextEncode]_vars

(* Both directions at once: the device sends one chunk, a header or a      *)
(* whole frame, which the parse task decodes and broadcasts, while clients *)
(* connect and send.                                                       *)
NextStreams ==
    \/ \E ok \in BOOLEAN : ConnectSerial(ok)
    \/ \E data \in NextChunks : Len(tasks) = 0 /\ Len(data) <= 4 /\ DataReceived(data)
    \/ TaskStep
    \/ \E c \in Clients : ClientConnect(c)
    \/ \E c \in Clients, data \in ClientChunks : ClientData(c, data, 0)

SpecStreams == Init /\ [][NextStreams]_vars

(* All the decoders at work: the device sends two chunks, whose parse      *)
(* tasks interleave at the awaits of their broadcasts, and client 1 sends. *)
(* No write to a client fails.                                             *)
NextDecoders ==
    \/ \E ok \in BOOLEAN : ConnectSerial(ok)
    \/ \E data \in NextChunks : Len(tasks) < 2 /\ DataReceived(data)
    \/ \E t \in TaskIds : StartTask(t)
    \/ \E t \in TaskIds, c \in Clients : IterNext(t, c, "ok")
    \/ \E t \in TaskIds : IterError(t)
    \/ \E t \in TaskIds : IterEnd(t)
    \/ \E t \in TaskIds : DrainDone(t, TRUE)
    \/ \E c \in Clients : ClientConnect(c)
    \/ \E data \in ClientChunks : ClientData(1, data, 0)

SpecDecoders == Init /\ [][NextDecoders]_vars

----------------------------------------------------------------------------
(* The alert bot: main() of scripts/AlertBot/bot.py under the event loop   *)
(*                                                                         *)
(* bot.pc is the position of the message loop: "cycle" at the top of       *)
(* "while True" (or in the sleep before the next cycle), "msg" at the top  *)
(* of a turn of the for loop (or in the sleep before it), "sending" in     *)
(* await mc.commands.send_chan_msg.  bot.checker is the position of        *)
(* periodic_reconnect_check: "sleep" in asyncio.sleep(5), "connecting" in  *)
(* await connection.connect().  connected is connection_state['connected'].*)
(* sends counts the send_chan_msg calls; attempts counts the connect()     *)
(* calls of the checker since connection_state was last set connected.     *)

\* len(MESSAGES)
LenMessages == 6

\* MeshCore.create_serial(..., auto_reconnect=True, max_reconnect_attempts=5)
max_reconnect_attempts == 5

(* main() has connected, subscribed on_connected and on_disconnected,      *)
(* created the reconnect checker task and is about to start the cycles.    *)
BotInit ==
    /\ codec = [input |-> <<>>, pos |-> 0, chunks |-> <<>>, st |-> FreshDecoder,
                out |-> <<>>, kst |-> FreshDecoder, kout |-> <<>>]
    /\ BridgeIdle
    /\ bot = [pc |-> "cycle", checker |-> "sleep", connected |-> TRUE, i |-> 0,
              cycle_count |-> 0, total_messages_sent |-> 0, sends |-> 0,
              attempts |-> 0]
    /\ sender = SenderIdle

\* connection_state['connected'] = v
SetConnected(b, v) ==
    [b EXCEPT !.connected = v, !.attempts = IF v THEN 0 ELSE @]

(* the end of a turn of the for loop: asyncio.sleep(MESSAGE_INTERVAL_SECONDS) *)
(* and the next message, or after the last message the wait for the next   *)
(* cycle                                                                   *)
Advance(b) ==
    IF b.i < LenMessages THEN [b EXCEPT !.i = @ + 1, !.pc = "msg"]
    ELSE [b EXCEPT !.pc = "cycle"]

\* on_connected: a CONNECTED event
OnConnected ==
    /\ bot.pc # "idle"
    /\ bot' = SetConnected(bot, TRUE)
    /\ UNCHANGED nonBotVars

\* on_disconnected: a DISCONNECTED event
OnDisconnected ==
    /\ bot.pc # "idle"
    /\ bot' = SetConnected(bot, FALSE)
    /\ UNCHANGED nonBotVars

\* "while True: cycle_count += 1", and the for loop begins
CycleStart ==
    /\ bot.pc = "cycle"
    /\ bot.cycle_count < MaxCycles
    /\ bot' = [bot EXCEPT !.cycle_count = @ + 1, !.i = 1, !.pc = "msg"]
    /\ UNCHANGED nonBotVars

\* MessageTurn calling send_chan_msg whatever connection_state says
MessageTurnIgnoresState ==
    /\ bot.pc = "msg"
    /\ bot' = [bot EXCEPT !.pc = "sending", !.sends = @ + 1]
    /\ UNCHANGED nonBotVars

(* A turn of the for loop up to its await: the message is skipped when     *)
(* connection_state is disconnected, otherwise send_chan_msg is called.    *)
MessageTurn ==
    /\ bot.pc = "msg"
    /\ bot' = IF ~bot.connected THEN Advance(bot)
              ELSE [bot EXCEPT !.pc = "sending", !.sends = @ + 1]
    /\ UNCHANGED nonBotVars

(* send_chan_msg returned.  result: "ok" (not an ERROR event), the ERROR   *)
(* reason "no_event_received", or another ERROR; is_connected: the value   *)
(* of mc.is_connected.                                                     *)
SendResult(result, is_connected) ==
    /\ bot.pc = "sending"
    /\ bot' = IF result = "ok"
              THEN Advance([bot EXCEPT !.total_messages_sent = @ + 1])
              ELSE IF result = "no_event_received" \/ ~bot.connected
              THEN Advance(SetConnected(bot, is_connected))
              ELSE Advance(bot)
    /\ UNCHANGED nonBotVars

\* CheckerConnect calling connect() without looking at connection_state
CheckerConnectAlways ==
    /\ bot.checker = "sleep"
    /\ bot.attempts < MaxAttempts
    /\ bot' = [bot EXCEPT !.checker = "connecting", !.attempts = @ + 1]
    /\ UNCHANGED nonBotVars

(* periodic_reconnect_check wakes from asyncio.sleep(5) with               *)
(* connection_state disconnected, the port present and the connection      *)
(* object at hand: it calls connection.connect().  (Otherwise it sleeps    *)
(* again, which changes nothing.)                                          *)
CheckerConnect ==
    /\ bot.checker = "sleep"
    /\ ~bot.connected
    /\ bot.attempts < MaxAttempts
    /\ bot' = [bot EXCEPT !.checker = "connecting", !.attempts = @ + 1]
    /\ UNCHANGED nonBotVars

(* connect() returned a value ("ok"), returned None ("none") or raised     *)
(* ("raise", swallowed); the checker sleeps again.                         *)
CheckerResult(result) ==
    /\ bot.checker = "connecting"
    /\ bot' = IF result = "ok"
              THEN [SetConnected(bot, TRUE) EXCEPT !.checker = "sleep"]
              ELSE [bot EXCEPT !.checker = "sleep"]
    /\ UNCHANGED nonBotVars

NextBot ==
    \/ OnConnected
    \/ OnDisconnected
    \/ CycleStart
    \/ MessageTurn
    \/ \E r \in {"ok", "no_event_received", "error"}, ic \in BOOLEAN : SendResult(r, ic)
    \/ CheckerConnect
    \/ \E r \in {"ok", "none", "raise"} : CheckerResult(r)

SpecBot == BotInit /\ [][NextBot]_vars

----------------------------------------------------------------------------
(* The channel message sender: main() and find_channel_by_name of          *)
(* examples/send_channel_message.py                                        *)
(*                                                                         *)
(* Characters are their code points, strings are sequences of them.        *)
(* sender.pc is the position of main(): "start" before the arguments are   *)
(* looked at, "create_serial" in await MeshCore.create_serial,             *)
(* "get_channel" in await mc.commands.get_channel(idx), "send_chan_msg" in *)
(* await mc.commands.send_chan_msg, "disconnect" in await mc.disconnect(), *)
(* "ended" returned (or ended by the error the finally block let through), *)
(* "failed" ended by an error of create_serial.                            *)

\* for idx in range(256)
NumChannels == 256

\* the characters str.strip() removes, up to U+00A0
Whitespace == {9, 10, 11, 12, 13, 28, 29, 30, 31, 32, 133, 160}

RECURSIVE LStrip(_, _)
LStrip(str, chars) ==
    IF str # <<>> /\ Head(str) \in chars THEN LStrip(Tail(str), chars) ELSE str

RECURSIVE RStrip(_, _)
RStrip(str, chars) ==
    IF str # <<>> /\ str[Len(str)] \in chars
    THEN RStrip(SubSeq(str, 1, Len(str) - 1), chars) ELSE str

\* str.strip(chars): the leading and the trailing characters of chars removed
Strip(str, chars) == RStrip(LStrip(str, chars), chars)

\* payload.get('channel_name', '').strip('\x00').strip()
ChannelName(channel_name) == Strip(Strip(channel_name, {0}), Whitespace)

\* the channel names of the device: "a", "a\0\0", " a \0", "a\0 ", "b"
RawNames == { <<97>>, <<97, 0, 0>>, <<32, 97, 32, 0>>, <<97, 0, 32>>, <<98>> }

(* what get_channel does at an index: a CHANNEL_INFO event with a name, an *)
(* ERROR event, or an exception                                            *)
Answers ==
    {[type |-> "CHANNEL_INFO", channel_name |-> n] : n \in RawNames}
    \cup {[type |-> "ERROR", channel_name |-> <<>>],
          [type |-> "raise", channel_name |-> <<>>]}

\* the indices at which the device answers as it likes; at the others, ERROR
ChannelSlots == {0, 1, 255}

\* the result of mc.commands.get_channel(idx)
GetChannelResult(idx) ==
    IF idx \in DOMAIN sender.names THEN sender.names[idx]
    ELSE [type |-> "ERROR", channel_name |-> <<>>]

\* the arguments: --channel-index absent, 0 or 7; --channel absent, "a" or "c"
SenderInit ==
    /\ codec = [input |-> <<>>, pos |-> 0, chunks |-> <<>>, st |-> FreshDecoder,
                out |-> <<>>, kst |-> FreshDecoder, kout |-> <<>>]
    /\ BridgeIdle
    /\ bot = BotIdle
    /\ \E ci \in {None, 0, 7}, ch \in {<<>>, <<97>>, <<99>>},
          nm \in [ChannelSlots -> Answers] :
            sender = [SenderIdle EXCEPT !.pc = "start", !.channel_index = ci,
                                        !.channel = ch, !.names = nm]

\* "result = await mc.commands.send_chan_msg(channel_idx, args.message)" is called
CallSendChanMsg(sd, channel_idx) ==
    [sd EXCEPT !.channel_idx = channel_idx, !.sent = Append(@, channel_idx),
               !.pc = "send_chan_msg"]

(* "Determine channel index": the explicit index, or the name to look up   *)
(* after connecting, or the error message and return.                      *)
DetermineChannel ==
    /\ sender.pc = "start"
    /\ sender' = IF sender.channel_index # None
                 THEN [sender EXCEPT !.channel_idx = sender.channel_index,
                                     !.pc = "create_serial"]
                 ELSE IF sender.channel # <<>>
                 THEN [sender EXCEPT !.pc = "create_serial"]
                 ELSE [sender EXCEPT !.pc = "ended"]
    /\ UNCHANGED nonSenderVars

(* MeshCore.create_serial returned the connected object (ok) or raised,    *)
(* which ends main() before the try.  Inside the try the search begins     *)
(* with get_channel(0) when a name was given and no index, otherwise       *)
(* send_chan_msg is called.                                                *)
CreateSerial(ok) ==
    /\ sender.pc = "create_serial"
    /\ sender' = IF ~ok THEN [sender EXCEPT !.pc = "failed"]
                 ELSE IF sender.channel # <<>> /\ sender.channel_idx = None
                 THEN [sender EXCEPT !.opened = TRUE, !.idx = 0, !.pc = "get_channel"]
                 ELSE CallSendChanMsg([sender EXCEPT !.opened = TRUE],
                                      IF sender.channel_idx = None THEN 0
                                      ELSE sender.channel_idx)
    /\ UNCHANGED nonSenderVars

\* GetChannel comparing the name as the device gave it, not stripped
GetChannelRawCompare ==
    /\ sender.pc = "get_channel"
    /\ LET result == GetChannelResult(sender.idx)
       IN  sender' =
             IF result.type = "raise"
             THEN [sender EXCEPT !.disconnected = TRUE, !.pc = "disconnect"]
             ELSE IF /\ result.type = "CHANNEL_INFO"
                     /\ result.channel_name = sender.channel
             THEN CallSendChanMsg(sender, sender.idx)
             ELSE IF sender.idx + 1 < NumChannels
             THEN [sender EXCEPT !.idx = @ + 1]
             ELSE CallSendChanMsg(sender, 0)
    /\ UNCHANGED nonSenderVars

(* A turn of the loop of find_channel_by_name: get_channel(idx) returned   *)
(* or raised.  An exception leaves the try of main() through the finally   *)
(* block, which calls mc.disconnect().  A CHANNEL_INFO whose stripped name *)
(* is the requested one ends the search with idx; otherwise the next index *)
(* is asked, and after the last one the search returns None and main()     *)
(* takes channel 0.  With the index at hand send_chan_msg is called.       *)
GetChannel ==
    /\ sender.pc = "get_channel"
    /\ LET result == GetChannelResult(sender.idx)
       IN  sender' =
             IF result.type = "raise"
             THEN [sender EXCEPT !.disconnected = TRUE, !.pc = "disconnect"]
             ELSE IF /\ result.type = "CHANNEL_INFO"
                     /\ ChannelName(result.channel_name) = sender.channel
             THEN CallSendChanMsg(sender, sender.idx)
             ELSE IF sender.idx + 1 < NumChannels
             THEN [sender EXCEPT !.idx = @ + 1]
             ELSE CallSendChanMsg(sender, 0)
    /\ UNCHANGED nonSenderVars

(* send_chan_msg returned an event of type OK, ERROR or another type, or   *)
(* raised: a line is printed or not, and the finally block calls           *)
(* mc.disconnect().                                                        *)
SendChanMsgDone(result) ==
    /\ sender.pc = "send_chan_msg"
    /\ result \in {"OK", "ERROR", "other", "raise"}
    /\ sender' = [sender EXCEPT !.disconnected = TRUE, !.pc = "disconnect"]
    /\ UNCHANGED nonSenderVars

\* await mc.disconnect() returned or raised: main() ends
DisconnectDone(ok) ==
    /\ sender.pc = "disconnect"
    /\ sender' = [sender EXCEPT !.pc = "ended"]
    /\ UNCHANGED nonSenderVars

NextSend ==
    \/ DetermineChannel
    \/ \E ok \in BOOLEAN : CreateSerial(ok)
    \/ GetChannel
    \/ \E r \in {"OK", "ERROR", "other", "raise"} : SendChanMsgDone(r)
    \/ \E ok \in BOOLEAN : DisconnectDone(ok)

SpecSend == SenderInit /\ [][NextSend]_vars

\* the frames a decoder emits when the whole byte sequence is one chunk
WholeSerial(input) == FeedSerial(FreshDecoder, input, 0, <<>>).out
WholeClient(input) == FeedClient(FreshDecoder, input, 0, TRUE, 0, <<>>).out

\* s is marker || little-endian 16-bit length || payload of that length
IsEncoding(s) == Len(s) >= 3 /\ s[1] = FRAME_START /\ FromBytesLE(s) = Len(s) - 3

PayloadOf(s) == PySlice(s, 3, Len(s))

CodecDone == codec.pos = Len(codec.input)

(* What the claims on the bridge refer to *)

Range(f) == {f[k] : k \in DOMAIN f}

\* task t is inside handle_serial_frame
InBroadcast(t) == tasks[t].pc \in {"iter", "drain", "remove", "wait_closed"}

\* every parse task has ended
Quiet == \A t \in TaskIds : tasks[t].pc \in {"done", "error"}

\* the chunks decoded one after the other by a parser that is never suspended
RECURSIVE FeedAll(_, _, _)
FeedAll(st, chunks, out) ==
    IF chunks = <<>> THEN [st |-> st, out |-> out]
    ELSE LET f == FeedSerial(st, Head(chunks), 0, <<>>)
         IN  FeedAll(f.st, Tail(chunks), out \o f.out)

\* the device's frames, in device order, and the parser state after them
DeviceFrames == FeedAll(FreshDecoder, rx, <<>>).out
DeviceState == FeedAll(FreshDecoder, rx, <<>>).st

\* a is b with some elements left out
RECURSIVE IsSubseq(_, _)
IsSubseq(a, b) ==
    IF a = <<>> THEN TRUE
    ELSE IF b = <<>> THEN FALSE
    ELSE IF Head(a) = Head(b) THEN IsSubseq(Tail(a), Tail(b))
    ELSE IsSubseq(a, Tail(b))

\* the step ends the broadcast task t is in: handle_serial_frame returns or raises
BroadcastEnds(t) ==
    /\ InBroadcast(t)
    /\ \/ tasks'[t].pc \in {"done", "error"}
       \/ tasks[t].pc \in {"iter", "remove"} /\ tasks'[t].pc = "iter"
          /\ tasks'[t].visited = {} /\ tasks[t].visited # {}

----------------------------------------------------------------------------
(* Claims on the decoders *)

(* C1: chunk-boundary independence.  Once every byte of the input has been *)
(* fed, chunk by chunk, the serial parser has emitted the frames it emits  *)
(* for the whole input as one chunk, and the client parser has written the *)
(* frames it writes for the whole input as one chunk.                      *)
C1_ChunkBoundaryIndependence ==
    CodecDone => /\ codec.out = WholeSerial(codec.input)
                 /\ codec.kout = WholeClient(codec.input)

(* C2: header progress survives a chunk boundary.  When the chunk just fed *)
(* ended 1 or 2 bytes into a header (the parser saved them in `header`),   *)
(* the next chunk is parsed as if those bytes preceded it; and the input   *)
(* 0x3C 0x05 then 0x00 "hello" yields exactly the frame "hello".           *)
C2_HeaderSaved ==
    /\ ~codec.st.started
    /\ Len(codec.st.header) \in {1, 2}
    /\ codec.st.header = PySlice(codec.input, codec.pos - Len(codec.st.header), codec.pos)

C2_HeaderProgressSurvives ==
    /\ [][(C2_HeaderSaved /\ codec'.pos > codec.pos) =>
            codec'.out = codec.out \o
                WholeSerial(codec.st.header \o PySlice(codec.input, codec.pos, codec'.pos))]_vars
    /\ []((codec.input = HelloStream /\ codec.chunks = <<2, 6>>) =>
            codec.out = <<PayloadOf(HelloStream)>>)

(* C3: round trip.  A packet built as handle_serial_frame builds it, fed   *)
(* as one chunk to a fresh decoder, yields exactly the one frame that is   *)
(* its payload (the empty payload and payloads holding 0x3C included).     *)
C3_RoundTrip ==
    \A p \in SeqsUpTo(CodecBytes, MaxLen - 3) :
        (codec.input = Packet(p) /\ codec.chunks = <<Len(codec.input)>>) =>
            codec.out = <<p>>

(* C4: resync.  A fresh (marker-seeking) decoder fed garbage bytes, none   *)
(* of them the marker, followed by one valid encoded frame, in any         *)
(* chunking, has emitted exactly that frame, once, when the input is       *)
(* consumed.                                                               *)
C4_ResyncLaw ==
    \A k \in 0..Len(codec.input) :
        LET garbage == PySlice(codec.input, 0, k)
            encoded == PySlice(codec.input, k, Len(codec.input))
        IN  (/\ CodecDone
             /\ \A j \in 1..Len(garbage) : garbage[j] # FRAME_START
             /\ IsEncoding(encoded))
            => codec.out = <<PayloadOf(encoded)>>

(* C20: a frame of declared length 0 completes at once.  No feed call      *)
(* returns with a decoder that has consumed a header declaring length 0    *)
(* and not yet emitted the empty frame: after every chunk, a decoder that  *)
(* is inside a frame is waiting for payload bytes that are still missing.  *)
C20_EmptyFrameImmediate ==
    /\ codec.st.started => Len(codec.st.inframe) < codec.st.size
    /\ codec.kst.started => Len(codec.kst.inframe) < codec.kst.size

(* What a chunk holds when it is k complete frames back to back followed   *)
(* by the beginning of another (or by nothing): the payloads of the frames *)
(* and the bytes of the beginning; ok is FALSE for any other chunk.        *)
RECURSIVE SplitFrames(_, _)
SplitFrames(s, out) ==
    IF s = <<>> THEN [ok |-> TRUE, frames |-> out, rest |-> <<>>]
    ELSE IF s[1] # FRAME_START THEN [ok |-> FALSE, frames |-> out, rest |-> s]
    ELSE IF Len(s) < 3 \/ Len(s) - 3 < FromBytesLE(s)
    THEN [ok |-> TRUE, frames |-> out, rest |-> s]
    ELSE SplitFrames(PySlice(s, 3 + FromBytesLE(s), Len(s)),
                     Append(out, PySlice(s, 3, 3 + FromBytesLE(s))))

(* C21: one chunk may yield many frames.  A fresh decoder fed, as a single *)
(* chunk, k >= 1 complete back-to-back frames followed by the beginning of *)
(* another frame (or by nothing) has emitted exactly those k frames, in    *)
(* order, when the feed returns; the bytes of the beginning are what it    *)
(* holds in header and inframe, and with nothing left over it is back in   *)
(* the marker-seeking state.                                               *)
C21_ManyFramesPerChunk ==
    LET want == SplitFrames(codec.input, <<>>)
    IN  (/\ codec.chunks = <<Len(codec.input)>>
         /\ want.ok
         /\ Len(want.frames) >= 1) =>
            /\ codec.out = want.frames
            /\ codec.st.header \o codec.st.inframe = want.rest
            /\ want.rest = <<>> => ~codec.st.started

----------------------------------------------------------------------------
(* Claims on the serial-to-clients direction *)

(* C5: failure isolation of a broadcast.  When a broadcast in which the    *)
(* write or drain of some client k raised is over, every other client that *)
(* was registered when it began and still is has been written the frame,   *)
(* and k is no longer in the client set.                                   *)
C5_FailureIsolation ==
    [][\A t \in TaskIds :
          (BroadcastEnds(t) /\ tasks[t].failed # {}) =>
              /\ (tasks[t].snap \cap tcp_clients) \subseteq tasks[t].visited
              /\ tasks[t].failed \cap tcp_clients' = {}]_vars

(* C6: a slow client does not block the others.  While a broadcast waits   *)
(* for the drain of one client, every other registered client has already  *)
(* been written the frame: their delivery does not wait for that drain.    *)
C6_SlowClientDoesNotBlock ==
    \A t \in TaskIds :
        tasks[t].pc = "drain" =>
            ((tasks[t].snap \cap tcp_clients) \ {tasks[t].cur}) \subseteq tasks[t].visited

(* C7: the broadcast iterates a stable snapshot.  A connect or disconnect  *)
(* during a broadcast never aborts the iteration, and only clients that    *)
(* were registered when the broadcast began are written its frame.         *)
C7_StableSnapshot ==
    \A t \in TaskIds :
        /\ tasks[t].pc # "error"
        /\ tasks[t].visited \subseteq tasks[t].snap

(* C8: upstream ordering.  At most one frame is being broadcast at a time, *)
(* and what each client has been written is the device's frames in device  *)
(* order, each at most once.                                               *)
C8_UpstreamOrdering ==
    /\ Cardinality({t \in TaskIds : InBroadcast(t)}) <= 1
    /\ \A c \in Clients :
          IsSubseq(client_rx[c], [k \in 1..Len(DeviceFrames) |-> Packet(DeviceFrames[k])])

(* C9: decoding is independent of the audience.  When every parse task has *)
(* ended, the parser state is the state a parser fed the same chunks with  *)
(* no client registered is in; if no client ever registered, every frame   *)
(* was decoded, nothing was written and no task ended with an error.       *)
C9_AudienceIndependence ==
    Quiet =>
        /\ SerialState = DeviceState
        /\ (\A c \in Clients : clients[c].status = "new") =>
              /\ bcast = DeviceFrames
              /\ \A c \in Clients : client_rx[c] = <<>>
              /\ \A t \in TaskIds : tasks[t].pc = "done"

(* C22: each frame decoded from the serial stream is broadcast exactly     *)
(* once.  The frames handed to handle_serial_frame are frames of the       *)
(* device, in device order, none handed twice; and when every parse task   *)
(* has returned, every frame the chunks hold has been handed over: no      *)
(* reset has thrown away bytes of a later frame.                           *)
C22_BroadcastExactlyOnce ==
    /\ IsSubseq(bcast, DeviceFrames)
    /\ (\A t \in TaskIds : tasks[t].pc = "done") => bcast = DeviceFrames

(* C23: no partial frame crosses the boundary to a client.  Every packet   *)
(* written to a client, each in one write, is the marker, a little-endian  *)
(* 16-bit length and a payload of exactly that length, the payload being a *)
(* frame handed to handle_serial_frame; and the packet a broadcast begins  *)
(* with is the header the parser read followed by the payload it           *)
(* collected, whose length is the declared one.                            *)
C23_WholeFramesToClients ==
    /\ \A c \in Clients : \A j \in 1..Len(client_rx[c]) :
          /\ IsEncoding(client_rx[c][j])
          /\ \E k \in 1..Len(bcast) : PayloadOf(client_rx[c][j]) = bcast[k]
    /\ \A t \in TaskIds :
          (tasks[t].pc = "iter" /\ tasks[t].visited = {}) =>
              /\ serial_frame_started
              /\ Len(serial_inframe) = serial_frame_size
              /\ tasks[t].packet = serial_header \o serial_inframe

(* a broadcast has written the whole frame to one client and awaits its    *)
(* drain; the other client of the broadcast has disconnected meanwhile and *)
(* has received nothing of the frame                                       *)
C23_Witness ==
    \E t \in TaskIds, c \in Clients :
        /\ tasks[t].pc = "drain" /\ tasks[t].cur # c
        /\ c \in tasks[t].snap \ tcp_clients
        /\ clients[c].status = "closed"
        /\ client_rx[c] = <<>>
        /\ client_rx[tasks[t].cur] = <<tasks[t].packet>>
        /\ tasks[t].packet = <<60, 1, 0, 7>>

----------------------------------------------------------------------------
(* Claims on the clients-to-serial direction *)

(* C24: every write to the serial link is one well-formed frame.  Each     *)
(* byte string the client parser has passed to serial_transport.write is   *)
(* the marker, a little-endian 16-bit length and a payload of exactly that *)
(* length, for every chunking of the client's input, a header left         *)
(* incomplete at the end of an earlier chunk included.                     *)
C24_SerialWritesWellFormed ==
    /\ \A j \in 1..Len(codec.kout) :
          /\ Len(codec.kout[j]) >= 3
          /\ codec.kout[j][1] = FRAME_START
          /\ Len(codec.kout[j]) - 3 = codec.kout[j][2] + 256 * codec.kout[j][3]
    /\ \A j \in 1..Len(serial_tx) : IsEncoding(serial_tx[j])

(* a chunk ended with a lone marker, and the frame 07 of the next chunk    *)
(* was written to the serial link as 3C 01 00 07                           *)
C24_Witness ==
    /\ codec.input = <<60, 60, 1, 0, 7>>
    /\ codec.chunks = <<1, 4>>
    /\ codec.kout = << <<60, 1, 0, 7>> >>

(* C25: decoder buffer invariant.  In every reachable state of the serial  *)
(* decoder and of each client decoder, the states reached by interleaved   *)
(* parse tasks included, the payload buffer is empty while no frame is     *)
(* started and holds at most frame_size bytes while one is, and frame_size *)
(* is within 0..65535.                                                     *)
C25_DecoderBuffers ==
    \A st \in {SerialState} \cup {clients[c].st : c \in Clients} :
        /\ ~st.started => st.inframe = <<>>
        /\ st.started => Len(st.inframe) <= st.size
        /\ st.size \in 0..65535

(* two parse tasks are suspended in their broadcasts at once, the second   *)
(* having run on the state the first left, while the decoder of client 1   *)
(* holds a header and waits for the payload                                *)
C25_Witness ==
    /\ Len(tasks) = 2
    /\ tasks[1].pc = "drain"
    /\ tasks[2].pc = "drain"
    /\ serial_frame_started
    /\ clients[1].st.started
    /\ clients[1].st.size = 1
    /\ clients[1].st.inframe = <<>>

(* C26: no client pump outlives registry membership.  Whenever a frame of  *)
(* client c is written to the serial link, c is a member of tcp_clients at *)
(* that moment; in particular a client a broadcast has removed after a     *)
(* failed write forwards no further frame upstream.                        *)
C26_PumpWithinMembership ==
    [][\A c \in Clients :
          (clients'[c].sent > clients[c].sent /\ serial_tx' # serial_tx) =>
              c \in tcp_clients]_vars

(* C27: a client pump is torn down at disconnect.  Once handle_tcp_client  *)
(* of client c has ended, c is not in tcp_clients and no broadcast writes  *)
(* to c any more; the step that ends it leaves the set without c, also     *)
(* when the failure path of a broadcast had removed c before.              *)
C27_PumpTornDown ==
    /\ [](\A c \in Clients : clients[c].status = "closed" => c \notin tcp_clients)
    /\ [][\A c \in Clients :
            /\ clients[c].status = "closed" => client_rx'[c] = client_rx[c]
            /\ (clients[c].status = "open" /\ clients'[c].status = "closed") =>
                  tcp_clients' = tcp_clients \ {c}]_vars

(* the handler of client c has ended while the broadcast that had removed  *)
(* c after a failed write awaits wait_closed() of c                        *)
C27_Witness ==
    \E t \in TaskIds, c \in Clients :
        /\ tasks[t].pc = "wait_closed" /\ tasks[t].cur = c
        /\ c \in tasks[t].failed
        /\ clients[c].status = "closed"
        /\ c \notin tcp_clients

(* C28: removal closes best-effort.  A turn of the removal loop discards   *)
(* the failed client from tcp_clients and goes on with the loop, whether   *)
(* close() raised or not; when the loop is over no client that failed in   *)
(* the broadcast is in the set, the broadcast has returned without an      *)
(* error, and the parser has reset its state and gone on with the rest of  *)
(* the chunk from the byte after the frame.                                *)
C28_RemovalBestEffort ==
    [][\A t \in TaskIds :
          tasks[t].pc = "remove" =>
              /\ tasks'[t].pc # "error"
              /\ tasks[t].disconnected # <<>> =>
                    /\ tasks'[t].pc \in {"remove", "wait_closed"}
                    /\ Head(tasks[t].disconnected) \notin tcp_clients'
              /\ tasks[t].disconnected = <<>> =>
                    /\ tasks'[t].pc \in {"iter", "done"}
                    /\ tasks[t].failed \cap tcp_clients' = {}
                    /\ LET s == ScanSerial(ResetDecoder(SerialState), tasks[t].data,
                                           tasks[t].i + tasks[t].remaining)
                       IN  tcp_clients # {} =>
                              /\ tasks'[t].pc = (IF s.frame THEN "iter" ELSE "done")
                              /\ serial_frame_started' = s.st.started
                              /\ serial_inframe' = s.st.inframe
                    /\ tcp_clients = {} =>
                          bcast' = bcast \o FeedSerial(ResetDecoder(SerialState),
                                                       tasks[t].data,
                                                       tasks[t].i + tasks[t].remaining,
                                                       <<>>).out]_vars

(* both clients failed in one broadcast and close() of one of them raised; *)
(* both are out of the set and the removal loop is over                    *)
C28_Witness ==
    \E t \in TaskIds :
        /\ tasks[t].pc = "remove"
        /\ tasks[t].disconnected = <<>>
        /\ Cardinality(tasks[t].failed) = 2
        /\ tasks[t].close_raised # {}
        /\ tasks[t].failed \cap tcp_clients = {}

(* C10: the loss of the serial link affects only the send direction of a   *)
(* client.  When a client's chunk is parsed while serial_transport is      *)
(* unset, nothing is written to the serial link, the client set is left as *)
(* it is (the client stays registered), and the client's parser ends in    *)
(* the state it would be in had its frames been forwarded: the drop leaves *)
(* nothing behind that would disturb the forwarding of later frames.       *)
C10_UpstreamLossOnlySendDirection ==
    [][\A c \in Clients :
          (clients'[c].sent > clients[c].sent /\ ~serial_transport) =>
              /\ serial_tx' = serial_tx
              /\ tcp_clients' = tcp_clients
              /\ clients'[c].status = "open"
              /\ clients'[c].st =
                    FeedClient(clients[c].st, clients'[c].data, 0, TRUE, 0, <<>>).st]_vars

\* the link is lost, a registered client has sent a whole frame, and it was dropped
C10_Witness ==
    \E c \in Clients :
        /\ run_pc = "serving" /\ ~serial_transport
        /\ c \in tcp_clients /\ clients[c].status = "open"
        /\ clients[c].data = <<60, 1, 0, 7>>
        /\ clients[c].st = ResetDecoder(clients[c].st)
        /\ serial_tx = <<>>

(* C11: client frames completed while the serial link is unusable are      *)
(* dropped, not queued.  When a client's chunk is parsed while             *)
(* serial_transport is unset, nothing is written to the serial link, and   *)
(* what the client's parser retains afterwards is at most one partial      *)
(* frame: 1 or 2 saved header bytes, or a header with a payload still      *)
(* short of its declared size (for a declared size of 0, the header        *)
(* alone).  No complete frame is kept for a later write.                   *)
C11_DownFramesDropped ==
    [][\A c \in Clients :
          (clients'[c].sent > clients[c].sent /\ ~serial_transport) =>
              /\ serial_tx' = serial_tx
              /\ LET st == clients'[c].st
                 IN  \/ ~st.started /\ st.inframe = <<>> /\ Len(st.header) <= 2
                     \/ /\ st.started /\ Len(st.header) = 3
                        /\ \/ Len(st.inframe) < st.size
                           \/ st.size = 0 /\ st.inframe = <<>>]_vars

(* the link is down, one client has sent a header and then the payload     *)
(* byte that completes the frame, and the frame has gone nowhere           *)
C11_Witness ==
    \E c \in Clients :
        /\ ~serial_transport /\ run_pc = "serving"
        /\ clients[c].status = "open" /\ clients[c].sent = 2
        /\ clients[c].data = <<8>>
        /\ clients[c].st = [started |-> FALSE, size |-> 1, header |-> <<>>, inframe |-> <<>>]
        /\ serial_tx = <<>>
        /\ \A d \in Clients \ {c} : clients[d].sent = 0

(* C12: a failed write to the serial link is not fatal and drops the       *)
(* frame.  When serial_transport.write raises for a frame of a client's    *)
(* chunk, the client's pump keeps running, the frames of the chunk other   *)
(* than the failed one are written, and the parser ends in the state it    *)
(* is in after a chunk whose frames were all forwarded: the failed frame   *)
(* is not kept to be written again.                                        *)
C12_FailedWriteDropsFrame ==
    [][\A c \in Clients :
          LET want == FeedClient(clients[c].st, clients'[c].data, 0, TRUE, 0, <<>>)
          IN  (/\ clients'[c].sent > clients[c].sent
               /\ serial_transport
               /\ Len(serial_tx') - Len(serial_tx) < Len(want.out)) =>
                  /\ clients'[c].status = "open"
                  /\ Len(serial_tx') - Len(serial_tx) = Len(want.out) - 1
                  /\ clients'[c].st = want.st]_vars

(* C13: no write to the serial link is attempted while it is marked        *)
(* unusable, and a write that fails is caught.  The bytes written to the   *)
(* serial link grow only in a step that begins with serial_transport set,  *)
(* and a client whose chunk was parsed, a failed write included, is still  *)
(* in its read loop and still registered.                                  *)
C13_CheckedBeforeWrite ==
    [][/\ serial_tx' # serial_tx => serial_transport
       /\ \A c \in Clients :
             clients'[c].sent > clients[c].sent =>
                 /\ clients'[c].status = "open"
                 /\ (c \in tcp_clients') = (c \in tcp_clients)]_vars

(* a write to the serial link raised: the client holds the complete frame  *)
(* that was not written, and is still in its read loop                     *)
C13_Witness ==
    \E c \in Clients :
        /\ serial_transport /\ run_pc = "serving"
        /\ c \in tcp_clients /\ clients[c].status = "open"
        /\ clients[c].st.started
        /\ clients[c].st.size = 1 /\ Len(clients[c].st.inframe) = 1
        /\ serial_tx = <<>>

(* C19: the loss of the serial link does not stop the accept loop.  The    *)
(* step in which the link is lost leaves run() serving and every client    *)
(* registered and in its read loop; and while run() serves with the link   *)
(* down, the next connection can be accepted: its handler adds it to the   *)
(* client set and enters the read loop.                                    *)
C19_AcceptSurvivesLinkLoss ==
    /\ [][(serial_transport /\ ~serial_transport') =>
              /\ run_pc' = "serving"
              /\ tcp_clients' = tcp_clients
              /\ clients' = clients]_vars
    /\ []((run_pc = "serving" /\ ~serial_transport /\ ~Running) =>
             \A c \in Clients :
                 (/\ clients[c].status = "new"
                  /\ \A d \in Clients : d < c => clients[d].status # "new")
                 => ENABLED ClientConnect(c))

\* the link is down, run() serves, and every client is registered and reading
C19_Witness ==
    /\ run_pc = "serving" /\ ~serial_transport
    /\ tcp_clients = Clients
    /\ \A c \in Clients : clients[c].status = "open"
    /\ serial_tx = <<>>
    /\ \A c \in Clients : clients[c].sent = 0

----------------------------------------------------------------------------
(* Claims on the two directions together *)

(* C14: decoder state is per stream.  A step in which client c's chunk is  *)
(* parsed leaves the parser state of every other client and of the serial  *)
(* stream as it was, and a step of the serial side (a chunk received, a    *)
(* step of a parse task) leaves every client's parser state as it was.     *)
C14_DecoderStatePerStream ==
    [][/\ \A c \in Clients :
             clients'[c].sent > clients[c].sent =>
                 /\ \A d \in Clients \ {c} : clients'[d].st = clients[d].st
                 /\ SerialState' = SerialState
       /\ (SerialState' # SerialState \/ tasks' # tasks \/ rx' # rx) =>
             \A c \in Clients : clients'[c].st = clients[c].st]_vars

(* three streams, each part-way into a frame of its own: client 1 has sent *)
(* a header, client 2 two bytes of a header, the device a header           *)
C14_Witness ==
    /\ clients[1].st = [started |-> TRUE, size |-> 1, header |-> <<60, 1, 0>>, inframe |-> <<>>]
    /\ clients[2].st = [FreshDecoder EXCEPT !.header = <<60, 1>>]
    /\ SerialState = [started |-> TRUE, size |-> 1, header |-> <<60, 1, 0>>, inframe |-> <<>>]
    /\ rx = << <<60, 1, 0>> >>

(* C15: no transport error terminates the bridge.  run() is never ended by *)
(* an error of the serial side or of a client: it has not started, is      *)
(* serving, or was stopped by its caller.                                  *)
C15_NoTransportErrorEndsRun == run_pc # "failed"

----------------------------------------------------------------------------
(* Claims on the life of run() *)

(* C16: shutdown is complete.  Once the caller has stopped run(), no       *)
(* connection is accepted any more; and when run() has returned, the       *)
(* writer of every registered client, one whose handler began during the   *)
(* shutdown included, has been closed by it unless its close() raised, and *)
(* the serial transport, if the link was still up, has been closed.        *)
C16_ShutdownComplete ==
    run_pc = "stopped" =>
        /\ tcp_clients \subseteq (shutdown.closed \cup shutdown.failed)
        /\ serial_transport => shutdown.serial_closed

----------------------------------------------------------------------------
(* Claims on the encoder *)

(* C17: a payload of 65536 bytes or more is not encoded.  Every packet     *)
(* handle_serial_frame writes to a client carries in its 2-byte length     *)
(* field the length of its payload, and the payload is the frame; for a    *)
(* frame of 65536 bytes or more the call ends with an error and writes     *)
(* nothing.                                                                *)
C17_PayloadTooLarge ==
    /\ \A c \in Clients : \A j \in 1..Len(client_rx[c]) :
          LET p == client_rx[c][j]
          IN  /\ Len(p) >= 3
              /\ FromBytesLE(p) = Len(p) - 3
              /\ \E k \in 1..Len(bcast) : PayloadOf(p) = bcast[k]
    /\ \A t \in TaskIds :
          Len(bcast[t]) >= 65536 =>
              /\ tasks[t].pc = "error"
              /\ \A c \in Clients : client_rx[c] = <<>>

\* handle_serial_frame was called on a frame of 65536 bytes and raised
C17_Witness ==
    \E t \in TaskIds :
        /\ Len(bcast[t]) = 65536
        /\ tasks[t].pc = "error"
        /\ tasks[t].packet = OverflowError

----------------------------------------------------------------------------
(* Claims on the alert bot *)

(* C29: the send loop of the alert bot.  Within a cycle the message index  *)
(* goes up by one from 1, so the messages are attempted in list order and  *)
(* each at most once; send_chan_msg is called only while connection_state  *)
(* is connected, and a turn taken while it is disconnected moves on to the *)
(* next message without a call; total_messages_sent goes up by one, and    *)
(* only when a send_chan_msg call returns, so it never exceeds the number  *)
(* of calls that have returned.                                            *)
C29_SendLoop ==
    /\ [](bot.total_messages_sent <=
             bot.sends - (IF bot.pc = "sending" THEN 1 ELSE 0))
    /\ [][/\ bot'.sends # bot.sends =>
               /\ bot.connected
               /\ bot.pc = "msg" /\ bot'.pc = "sending"
               /\ bot'.sends = bot.sends + 1
               /\ bot'.i = bot.i
          /\ (bot.pc = "msg" /\ ~bot.connected /\ bot'.pc # "msg") =>
               /\ bot'.sends = bot.sends
               /\ bot.i = LenMessages /\ bot'.pc = "cycle"
          /\ (bot.pc = "msg" /\ ~bot.connected /\ bot'.i # bot.i) =>
               bot'.sends = bot.sends
          /\ bot'.i # bot.i =>
               \/ bot.pc \in {"msg", "sending"} /\ bot.i < LenMessages
                    /\ bot'.i = bot.i + 1 /\ bot'.pc = "msg"
               \/ bot.pc = "cycle" /\ bot'.i = 1
                    /\ bot'.cycle_count = bot.cycle_count + 1
          /\ bot'.total_messages_sent # bot.total_messages_sent =>
               /\ bot'.total_messages_sent = bot.total_messages_sent + 1
               /\ bot.pc = "sending" /\ bot'.pc # "sending"]_vars

(* in the first cycle two messages were skipped while disconnected, the    *)
(* third was sent and counted, and the link is down again before the       *)
(* fourth                                                                  *)
C29_Witness ==
    /\ bot.cycle_count = 1
    /\ bot.pc = "msg" /\ bot.i = 4
    /\ bot.sends = 1
    /\ bot.total_messages_sent = 1
    /\ ~bot.connected

(* C30: connection tracking of the alert bot.  A DISCONNECTED event leaves *)
(* connection_state disconnected; connection_state becomes connected only  *)
(* in a CONNECTED event, when connect() of the reconnect checker returns,  *)
(* or when a send that was not counted as sent ends; the checker calls     *)
(* connect() only while connection_state is disconnected; and a turn of    *)
(* the message loop taken while connection_state is connected calls        *)
(* send_chan_msg, so sending resumes with the remaining messages.          *)
C30_ConnectionTracking ==
    [][/\ OnDisconnected => ~bot'.connected
       /\ (~bot.connected /\ bot'.connected) =>
             \/ bot' = [bot EXCEPT !.connected = TRUE, !.attempts = 0]
             \/ bot.checker = "connecting" /\ bot'.checker = "sleep"
             \/ /\ bot.pc = "sending" /\ bot'.pc # "sending"
                /\ bot'.total_messages_sent = bot.total_messages_sent
       /\ (bot'.checker = "connecting" /\ bot.checker # "connecting") =>
             ~bot.connected /\ bot.checker = "sleep"
       /\ (bot.pc = "msg" /\ bot.connected /\ (bot'.pc # "msg" \/ bot'.i # bot.i)) =>
             /\ bot'.pc = "sending" /\ bot'.i = bot.i
             /\ bot'.sends = bot.sends + 1]_vars

(* the first two messages of the cycle were skipped while disconnected;    *)
(* the link is restored and the third message is being sent                *)
C30_Witness ==
    /\ bot.cycle_count = 1
    /\ bot.pc = "sending" /\ bot.i = 3
    /\ bot.sends = 1
    /\ bot.connected
    /\ bot.attempts = 0

(* C18: reconnection is bounded.  While connection_state stays             *)
(* disconnected the bot calls connect() at most max_reconnect_attempts     *)
(* times.                                                                  *)
C18_ReconnectBounded == bot.attempts <= max_reconnect_attempts

----------------------------------------------------------------------------
(* Claims on the channel message sender *)

\* the indices in 0..255 whose stripped channel name is the requested one
MatchingChannels ==
    {i \in 0..255 : /\ GetChannelResult(i).type = "CHANNEL_INFO"
                    /\ ChannelName(GetChannelResult(i).channel_name) = sender.channel}

\* the channel the search by name leads to: the lowest match, or 0 without one
ChannelByName ==
    IF MatchingChannels = {} THEN 0
    ELSE CHOOSE m \in MatchingChannels : \A k \in MatchingChannels : m <= k

\* no get_channel call the search makes raises
SearchReturns ==
    \A i \in 0..255 :
        GetChannelResult(i).type = "raise" =>
            MatchingChannels # {} /\ i > ChannelByName

(* C31: channel selection of send_channel_message.  send_chan_msg is       *)
(* called at most once.  With --channel-index the message goes to that     *)
(* index as given.  With only --channel it goes to the lowest index in     *)
(* 0..255 whose channel name, stripped of the NUL bytes at its ends and    *)
(* then of surrounding whitespace, is the requested name, and to channel 0 *)
(* when there is none.                                                     *)
(* With neither option no connection is opened and nothing is sent.  A     *)
(* connection that was opened is left only through mc.disconnect(),        *)
(* whatever get_channel or send_chan_msg returned or raised.               *)
C31_ChannelSelection ==
    /\ Len(sender.sent) <= 1
    /\ sender.channel_index # None =>
          /\ sender.opened => sender.sent = <<sender.channel_index>>
          /\ ~sender.opened => sender.sent = <<>>
    /\ (sender.channel_index = None /\ sender.channel # <<>>) =>
          /\ sender.sent # <<>> => sender.sent = <<ChannelByName>>
          /\ (SearchReturns /\ sender.pc \in {"send_chan_msg", "disconnect", "ended"}) =>
                sender.sent = <<ChannelByName>>
    /\ (sender.channel_index = None /\ sender.channel = <<>>) =>
          /\ ~sender.opened
          /\ sender.sent = <<>>
          /\ sender.pc \in {"start", "ended"}
    /\ (sender.opened /\ ~sender.disconnected) =>
          sender.pc \in {"get_channel", "send_chan_msg"}
    /\ sender.disconnected => sender.opened
    /\ sender.pc = "failed" => ~sender.opened /\ sender.sent = <<>>

(* the name "a" was asked for; channel 0 is "a\0 ", which stripped is not  *)
(* "a", channel 255 is " a \0", which is: the message went to channel 255  *)
(* and the connection was disconnected                                     *)
C31_Witness ==
    /\ sender.pc = "ended"
    /\ sender.channel_index = None
    /\ sender.channel = <<97>>
    /\ sender.names[0] = [type |-> "CHANNEL_INFO", channel_name |-> <<97, 0, 32>>]
    /\ sender.names[255] = [type |-> "CHANNEL_INFO", channel_name |-> <<32, 97, 32, 0>>]
    /\ sender.sent = <<255>>
    /\ sender.disconnected

====
